---- MODULE Spec2Model ----
(***************************************************************************)
(* Model of these parts of murasame-pp-rs:                                 *)
(*   - TaikoGradualDifficulty, the incremental difficulty iterator         *)
(*     (src/src/taiko/gradual_difficulty.rs);                              *)
(*   - OsuPP / OsuPPInner, the judgement-count solver, the effective-miss  *)
(*     estimator and the performance synthesizer (src/src/osu/pp.rs);      *)
(*   - OsuObject::new, the object normalizer                               *)
(*     (src/src/osu_2019/osu_object.rs).                                   *)
(* Each part has its own specification over the shared variables; the      *)
(* variables of the other parts stay at their initial values.              *)
(***************************************************************************)
EXTENDS Integers, Sequences, FiniteSets, TLC

VARIABLES
    overflow_checks, \* build profile: TRUE = usize overflow panics (debug),
                     \* FALSE = usize overflow wraps (release)
    map,             \* taiko: the map's hit objects, each its is_hit/is_circle flag
    iter,            \* taiko: the TaikoGradualDifficulty value
    op,              \* taiko: the last call made on iter: "new", "next" or "nth"
    res,             \* taiko: what that call returned
    phase,           \* osu: "idle", "build", "fault", "inner" or "done"
    attributes,      \* osu: the DifficultyAttributes of the map and mods
    builder,         \* osu: the OsuPP value
    target,          \* osu: the arguments of the accuracy() call made, if any
    inner,           \* osu: the OsuPPInner that assert_hitresults returned
    perf,            \* osu: the PerformanceAttributes that calculate returned
    norm             \* osu_2019: the calls of OsuObject::new made so far, the
                     \* shared tick buffer and the attributes they accumulate

taiko_vars == <<map, iter, op, res>>
osu_vars == <<phase, attributes, builder, target, inner, perf>>
vars == <<overflow_checks, map, iter, op, res, phase, attributes, builder,
          target, inner, perf, norm>>

\* The normalizer's variable while another specification runs.
NormIdle == norm = <<>>

Min(a, b) == IF a <= b THEN a ELSE b
Max(a, b) == IF a >= b THEN a ELSE b

(***************************************************************************)
(*                    TaikoGradualDifficulty                               *)
(***************************************************************************)

\* Largest number of hit objects of a map.
MaxObjects == 5
\* Largest argument given to nth.
MaxSkip == 6

\* All maps: every sequence of is_hit flags of length 0..MaxObjects.
Maps == UNION {[1..n -> BOOLEAN] : n \in 0..MaxObjects}

\* bool as usize
AsUsize(flag) == IF flag THEN 1 ELSE 0

\* Number of hit-type objects among the objects of m.
RECURSIVE HitCount(_)
HitCount(m) == IF m = <<>> THEN 0 ELSE AsUsize(Head(m)) + HitCount(Tail(m))

\* Option<TaikoDifficultyAttributes>. A snapshot is the clone of attrs:
\* max_combo, and the ratings, which Peaks::difficulty_values derives from
\* the accumulator; the accumulator is identified by the number of difficulty
\* objects it has processed (they are always a prefix of diff_objects).
None == [kind |-> "None", max_combo |-> 0, peaks |-> 0]
Some(s) == [kind |-> "Some", max_combo |-> s.max_combo, peaks |-> s.peaks]
\* The call panicked on a usize overflow (overflow checks on).
Panic == [kind |-> "Panic", max_combo |-> 0, peaks |-> 0]

\* TaikoGradualDifficulty::new. diff_objects holds one difficulty object per
\* map object from the third on (the zip of skip(2), skip(1) and the objects).
Taiko_new(m) ==
    IF Len(m) < 2
    THEN [idx |-> 0, max_combo |-> 0, diff_objects |-> <<>>, lists_all |-> 0,
          peaks |-> 0, total_hits |-> 0]
    ELSE LET max_combo == AsUsize(m[1]) + AsUsize(m[2])
             rest == SubSeq(m, 3, Len(m))
         IN [idx |-> 0, max_combo |-> max_combo, diff_objects |-> rest,
             lists_all |-> Len(rest), peaks |-> 0,
             total_hits |-> max_combo + HitCount(rest)]

\* ExactSizeIterator::len, as a mathematical integer: a negative value is a
\* usize subtraction that overflowed.
Taiko_len(s) == s.total_hits - s.idx

\* The inner `loop` of next: take difficulty objects from diff_objects and
\* process them into peaks until one is a hit (max_combo += 1, break), or
\* until diff_objects is exhausted (`?` returns None; the objects processed
\* so far stay processed). count_idx = TRUE is the loop of nth, which also
\* increments idx on the hit.
RECURSIVE ProcessUntilHit(_, _)
ProcessUntilHit(s, count_idx) ==
    IF s.diff_objects = <<>>
    THEN [st |-> s, hit |-> FALSE]
    ELSE LET curr == Head(s.diff_objects)
             s1 == [s EXCEPT !.diff_objects = Tail(@), !.peaks = @ + 1]
         IN IF curr
            THEN [st |-> [s1 EXCEPT !.max_combo = @ + 1,
                                    !.idx = IF count_idx THEN @ + 1 ELSE @],
                  hit |-> TRUE]
            ELSE ProcessUntilHit(s1, count_idx)

\* The tail of next: idx += 1, refresh the ratings, return the clone.
Emit(s) ==
    LET s1 == [s EXCEPT !.idx = @ + 1]
    IN [st |-> s1, res |-> Some(s1)]

\* A plausible slip: idx is counted before the early returns.
Taiko_next_counts_first(s) ==
    LET s0 == [s EXCEPT !.idx = @ + 1]
    IN IF s.idx >= 2
       THEN LET r == ProcessUntilHit(s0, FALSE)
            IN IF r.hit THEN [st |-> r.st, res |-> Some(r.st)]
                        ELSE [st |-> r.st, res |-> None]
       ELSE IF s.lists_all = 0
            THEN [st |-> s0, res |-> None]
            ELSE [st |-> s0, res |-> Some(s0)]

\* Iterator::next.
Taiko_next(s) ==
    IF s.idx >= 2
    THEN LET r == ProcessUntilHit(s, FALSE)
         IN IF r.hit THEN Emit(r.st) ELSE [st |-> r.st, res |-> None]
    ELSE IF s.lists_all = 0
         THEN [st |-> s, res |-> None]
         ELSE Emit(s)

\* The `for _ in 0..take` loop of nth.
RECURSIVE SkipLoop(_, _)
SkipLoop(s, take) ==
    IF take = 0
    THEN [st |-> s, hit |-> TRUE]
    ELSE LET r == ProcessUntilHit(s, TRUE)
         IN IF r.hit THEN SkipLoop(r.st, take - 1) ELSE r

\* Iterator::nth. self.len() overflows when idx > total_hits: the call
\* panics with overflow checks on; with them off the difference wraps to
\* 2^64 - (idx - total_hits), so that n.min(len - 1) is n for every n the
\* model uses.
Taiko_nth(s, n, checks) ==
    IF Taiko_len(s) < 0 /\ checks
    THEN [st |-> s, res |-> Panic]
    ELSE LET take0 == IF Taiko_len(s) < 0 THEN n
                      ELSE Min(n, Max(Taiko_len(s) - 1, 0))
             prime == s.idx < 2 /\ take0 > 0
             skipped == IF prime THEN Min(take0, 2) ELSE 0
             s1 == [s EXCEPT !.idx = @ + skipped]
             r == SkipLoop(s1, take0 - skipped)
         IN IF r.hit THEN Taiko_next(r.st) ELSE [st |-> r.st, res |-> None]

\* The osu! variables while the taiko specification runs.
OsuIdle ==
    /\ phase = "idle"
    /\ attributes = <<>>
    /\ builder = <<>>
    /\ target = <<>>
    /\ inner = <<>>
    /\ perf = <<>>

TaikoInit ==
    /\ overflow_checks \in BOOLEAN
    /\ map \in Maps
    /\ iter = Taiko_new(map)
    /\ op = "new"
    /\ res = None
    /\ OsuIdle
    /\ NormIdle

\* A call of next(). A panic has unwound the program: nothing follows it.
CallNext ==
    /\ res.kind # "Panic"
    /\ iter' = Taiko_next(iter).st
    /\ res' = Taiko_next(iter).res
    /\ op' = "next"
    /\ UNCHANGED <<overflow_checks, norm, map, osu_vars>>

\* A call of nth(n).
CallNth ==
    /\ res.kind # "Panic"
    /\ \E n \in 0..MaxSkip :
          /\ iter' = Taiko_nth(iter, n, overflow_checks).st
          /\ res' = Taiko_nth(iter, n, overflow_checks).res
    /\ op' = "nth"
    /\ UNCHANGED <<overflow_checks, norm, map, osu_vars>>

TaikoNext == CallNext \/ CallNth

TaikoSpec == TaikoInit /\ [][TaikoNext]_vars

(***************************************************************************)
(*            OsuPP: the judgement-count solver of the builder             *)
(***************************************************************************)

\* Largest object budget and largest explicit hit count given to the builder.
MaxCount == 6
\* Largest miss count given to the builder.
MaxMisses == 2
\* Target accuracies are the fractions k / AccSteps, k in 0..AccSteps, that
\* is the percentages 100 * k / AccSteps.
AccSteps == 8

\* Option<usize>::None, Option<f32>::None.
NoneU == -1
NoAcc == [some |-> FALSE, num |-> 0, den |-> 1]
\* An f32 quotient of two integers, kept as the exact fraction num / den.
SomeAcc(num, den) == [some |-> TRUE, num |-> num, den |-> den]

unwrap_or(x, d) == IF x = NoneU THEN d ELSE x
saturating_sub(a, b) == IF a >= b THEN a - b ELSE 0

\* OsuPP::new on a map with map_len hit objects.
OsuPP_new(map_len) ==
    [map_len |-> map_len, mods |-> {}, combo |-> NoneU, acc |-> NoAcc,
     n300 |-> NoneU, n100 |-> NoneU, n50 |-> NoneU, n_misses |-> 0,
     passed_objects |-> NoneU]

\* DifficultyAttributes::default().
DefaultAttributes ==
    [max_combo |-> 0, n_sliders |-> 0, n_circles |-> 0, n_spinners |-> 0,
     od |-> 0, ar |-> 0, aim_strain |-> 0, speed_strain |-> 0,
     flashlight_rating |-> 0]

\* self.passed_objects.unwrap_or_else(|| self.map.hit_objects.len())
n_objects_of(b) == unwrap_or(b.passed_objects, b.map_len)

\* (acc * n_objects as f32 * 6.0).round() as usize for acc = k / AccSteps:
\* round half away from zero, in exact arithmetic (f32 rounding of the
\* product is not modelled).
TargetTotal(k, n_objects) == (12 * k * n_objects + AccSteps) \div (2 * AccSteps)

\* What accuracy() returns when a usize subtraction overflows: a panic with
\* overflow checks on; with them off the value wraps modulo 2^64 and the
\* counts that follow are of that magnitude (no numeric value is kept for
\* them).
Overflowed(b, checks) ==
    [fault |-> IF checks THEN "panic" ELSE "wrapped", b |-> b]

\* The branch of accuracy() taken when n100 or n50 was specified.
AccuracyPartial(b, k, checks) ==
    LET n_objects == n_objects_of(b)
        n100_0 == unwrap_or(b.n100, 0)
        n50_0 == unwrap_or(b.n50, 0)
        placed_points == 2 * n100_0 + n50_0 + b.n_misses
        missing_objects == n_objects - n100_0 - n50_0 - b.n_misses
        missing_points ==
            saturating_sub(TargetTotal(k, n_objects), placed_points)
        n300_0 == Min(missing_objects, missing_points \div 6)
        n50_1 == n50_0 + (missing_objects - n300_0)
        only_n50 == b.n50 # NoneU /\ b.n100 = NoneU
        difference == n50_1 - b.n50
        n == IF only_n50 THEN Min(n300_0, difference \div 4) ELSE 0
        n300 == n300_0 - n
        n100 == n100_0 + 5 * n
        n50 == n50_1 - 4 * n
    IN IF missing_objects < 0
       THEN Overflowed(b, checks)
       ELSE [fault |-> "none",
             b |-> [b EXCEPT !.n300 = n300, !.n100 = n100, !.n50 = n50,
                      !.acc = SomeAcc(6 * n300 + 2 * n100 + n50,
                                      6 * n_objects)]]

\* The counts of the branch without n100/n50 before its rebalance:
\* n300 = delta / 5, n100 = (delta % 5).min(...), n50 = the rest. overflow
\* tells that one of the usize subtractions went below zero.
FullSplit(b, k) ==
    LET n_objects == n_objects_of(b)
        misses == Min(b.n_misses, n_objects)
        target_total == TargetTotal(k, n_objects)
        delta == target_total - (n_objects - misses)
        n300_0 == delta \div 5
        n100_0 == Min(delta % 5, n_objects - n300_0 - misses)
        n50_0 == n_objects - n300_0 - n100_0 - misses
    IN [n300 |-> n300_0, n100 |-> n100_0, n50 |-> n50_0,
        overflow |-> delta < 0 \/ n_objects - n300_0 - misses < 0 \/ n50_0 < 0]

\* A plausible slip: the rebalance converts one block of 4 n50 at most.
Rebalance_single_block(n300, n50) ==
    IF n300 > 0 /\ n50 >= 4 THEN 1 ELSE 0

\* "Sacrifice n300s to transform n50s into n100s": the number of n300 given
\* up, each turning 4 n50 and itself into 5 n100.
Rebalance(n300, n50) ==
    Min(n300, n50 \div 4)

\* The branch of accuracy() taken when neither n100 nor n50 was specified.
AccuracyFull(b, k, checks) ==
    LET n_objects == n_objects_of(b)
        s == FullSplit(b, k)
        n == Rebalance(s.n300, s.n50)
        n300 == s.n300 - n
        n100 == s.n100 + 5 * n
        n50 == s.n50 - 4 * n
    IN IF s.overflow
       THEN Overflowed(b, checks)
       ELSE [fault |-> "none",
             b |-> [b EXCEPT !.n300 = n300, !.n100 = n100, !.n50 = n50,
                      !.acc = SomeAcc(6 * n300 + 2 * n100 + n50,
                                      6 * n_objects)]]

\* OsuPP::accuracy(100 * k / AccSteps).
OsuPP_accuracy(b, k, checks) ==
    IF b.n100 # NoneU \/ b.n50 # NoneU
    THEN AccuracyPartial(b, k, checks)
    ELSE AccuracyFull(b, k, checks)

\* A plausible slip: the estimate replaces the reported misses instead of
\* bounding them from below (the final max is missing).
calculate_effective_misses_no_max(attrs, combo, n_misses, total_hits) ==
    LET threshold10 == 10 * attrs.max_combo - attrs.n_sliders
        guessed == attrs.n_sliders > 0 /\ combo # NoneU
                   /\ 10 * combo < threshold10
    IN IF guessed
       THEN Min(threshold10 \div (10 * Max(combo, 1)), total_hits)
       ELSE n_misses

\* calculate_effective_misses. full_combo_threshold = max_combo - 0.1 *
\* n_sliders is kept in tenths; the floor of the clamped quotient is the
\* clamped floor of the quotient because total_hits is a whole number.
calculate_effective_misses(attrs, combo, n_misses, total_hits) ==
    LET threshold10 == 10 * attrs.max_combo - attrs.n_sliders
        guessed == attrs.n_sliders > 0 /\ combo # NoneU
                   /\ 10 * combo < threshold10
        combo_based_misses ==
            IF guessed THEN threshold10 \div (10 * Max(combo, 1)) ELSE 0
    IN Max(n_misses, Min(combo_based_misses, total_hits))

\* A plausible slip in the completion step: the shortfall goes to n300
\* additively whenever n300 was specified.
Complete_always_n300(n300, n100, n50, remaining) ==
    IF remaining > 0
    THEN IF n300 # NoneU
         THEN [n300 |-> n300 + remaining, n100 |-> n100, n50 |-> n50]
         ELSE [n300 |-> remaining, n100 |-> n100, n50 |-> n50]
    ELSE [n300 |-> n300, n100 |-> n100, n50 |-> n50]

\* The completion step of assert_hitresults (`if remaining > 0 { ... }`).
Complete(n300, n100, n50, remaining) ==
    IF remaining > 0
    THEN IF n300 # NoneU
         THEN IF n100 = NoneU
              THEN [n300 |-> n300, n100 |-> remaining, n50 |-> n50]
              ELSE IF n50 = NoneU
                   THEN [n300 |-> n300, n100 |-> n100, n50 |-> remaining]
                   ELSE [n300 |-> n300 + remaining, n100 |-> n100,
                         n50 |-> n50]
         ELSE [n300 |-> remaining, n100 |-> n100, n50 |-> n50]
    ELSE [n300 |-> n300, n100 |-> n100, n50 |-> n50]

\* OsuPP::assert_hitresults.
OsuPP_assert_hitresults(b, attrs) ==
    LET n_objects == n_objects_of(b)
        remaining ==
            saturating_sub(
                saturating_sub(
                    saturating_sub(
                        saturating_sub(n_objects, unwrap_or(b.n300, 0)),
                        unwrap_or(b.n100, 0)),
                    unwrap_or(b.n50, 0)),
                b.n_misses)
        c == IF b.acc.some
             THEN [n300 |-> b.n300, n100 |-> b.n100, n50 |-> b.n50]
             ELSE Complete(b.n300, b.n100, b.n50, remaining)
        n300 == unwrap_or(c.n300, 0)
        n100 == unwrap_or(c.n100, 0)
        n50 == unwrap_or(c.n50, 0)
        acc == IF b.acc.some
               THEN b.acc
               ELSE SomeAcc(n300 * 6 + n100 * 2 + n50, 6 * n_objects)
        total_hits == Min(n300 + n100 + n50 + b.n_misses, n_objects)
    IN [mods |-> b.mods, combo |-> b.combo, acc |-> acc,
        n300 |-> n300, n100 |-> n100, n50 |-> n50,
        total_hits |-> total_hits,
        effective_misses |->
            calculate_effective_misses(attrs, b.combo, b.n_misses, total_hits)]




(***************************************************************************)
(*        f32 arithmetic of the performance synthesizer, in fixed point    *)
(*                                                                         *)
(* The integer x stands for the f32 value x / FScale; every operation      *)
(* rounds down to a multiple of 1 / FScale. NaN stands for f32::NAN and is *)
(* propagated as IEEE 754 does. Infinities do not arise: PerfSpec keeps    *)
(* total_hits positive, and the one division by a zero n_circles is        *)
(* resolved where it stands.                                               *)
(***************************************************************************)

FScale == 1000
NaN == 0 - 2^30

\* The decimal constant n / d
Dec(n, d) == (n * FScale) \div d

\* floor(x * n / d) without forming x * n (d > 0)
MulDiv(x, n, d) == (x \div d) * n + ((x % d) * n) \div d

\* x * n / d for an f32 x and a decimal constant n / d
Times(x, n, d) == IF x = NaN THEN NaN ELSE MulDiv(x, n, d)

FAdd(a, b) == IF a = NaN \/ b = NaN THEN NaN ELSE a + b
FSub(a, b) == IF a = NaN \/ b = NaN THEN NaN ELSE a - b
FMul(a, b) == IF a = NaN \/ b = NaN THEN NaN ELSE MulDiv(a, b, FScale)
\* a / b for b > 0
FDiv(a, b) == IF a = NaN \/ b = NaN THEN NaN ELSE MulDiv(a, FScale, b)

\* f32::max and f32::min return the other operand when one is NaN.
FMax(a, b) == IF a = NaN THEN b ELSE IF b = NaN THEN a ELSE Max(a, b)
FMin(a, b) == IF a = NaN THEN b ELSE IF b = NaN THEN a ELSE Min(a, b)

\* f32::powi for n >= 0
RECURSIVE FPowi(_, _)
FPowi(x, n) == IF n = 0 THEN FScale ELSE FMul(FPowi(x, n - 1), x)

\* ln 2
Ln2 == Dec(693147, 1000000)

\* ln m for m in [1, 2): 2 * atanh((m - 1) / (m + 1)), four terms
LnSeries(m) ==
    LET z == FDiv(m - FScale, m + FScale)
        z2 == FMul(z, z)
        z3 == FMul(z2, z)
        z5 == FMul(z3, z2)
        z7 == FMul(z5, z2)
    IN 2 * (z + z3 \div 3 + z5 \div 5 + z7 \div 7)

\* f32::ln for x > 0: x = m * 2^k with m in [1, 2)
RECURSIVE LnReduce(_, _)
LnReduce(x, k) ==
    IF x >= 2 * FScale THEN LnReduce(x \div 2, k + 1)
    ELSE IF x < FScale THEN LnReduce(2 * x, k - 1)
    ELSE k * Ln2 + LnSeries(x)
FLn(x) == LnReduce(x, 0)

\* e^r for r in [0, ln 2): Taylor series, six terms
ExpSeries(r) ==
    LET r2 == FMul(r, r)
        r3 == FMul(r2, r)
        r4 == FMul(r3, r)
        r5 == FMul(r4, r)
    IN FScale + r + r2 \div 2 + r3 \div 6 + r4 \div 24 + r5 \div 120

\* v * 2^k
RECURSIVE Shift(_, _)
Shift(v, k) ==
    IF k = 0 THEN v
    ELSE IF k > 0 THEN Shift(2 * v, k - 1)
    ELSE Shift(v \div 2, k + 1)

\* f32::exp: y = k * ln 2 + r
FExp(y) ==
    IF y = NaN THEN NaN
    ELSE LET k == y \div Ln2
         IN Shift(ExpSeries(y - k * Ln2), k)

\* f32::powf: a whole exponent multiplies out, a non-positive base has no
\* logarithm (0^y = 0 for y > 0, a negative base gives NaN), else
\* exp(y * ln x).
FPowf(x, y) ==
    IF x = NaN \/ y = NaN THEN NaN
    ELSE IF y >= 0 /\ y % FScale = 0 THEN FPowi(x, y \div FScale)
    ELSE IF x = 0 THEN (IF y > 0 THEN 0 ELSE NaN)
    ELSE IF x < 0 THEN NaN
    ELSE FExp(FMul(y, FLn(x)))

\* f32::log10 for x > 0
FLog10(x) == IF x = NaN THEN NaN ELSE FDiv(FLn(x), FLn(10 * FScale))

\* usize as f32
AsF32(n) == n * FScale


(***************************************************************************)
(*                 OsuPPInner: the performance synthesizer                 *)
(***************************************************************************)

One == FScale

\* self.acc as f32 (the denominator 6 * n_objects is positive in PerfSpec)
AccF32(i) == MulDiv(i.acc.num, FScale, i.acc.den)

\* len_bonus of compute_aim_value and compute_speed_value. The log10 term is
\* multiplied by (total_hits > 2000.0) as f32, that is by 0 up to 2000 hits.
LenBonus(total_hits) ==
    LET q == FDiv(total_hits, AsF32(2000))
    IN Dec(95, 100) + Times(FMin(q, One), 4, 10)
       + (IF total_hits > AsF32(2000) THEN Times(FLog10(q), 5, 10) ELSE 0)

\* 1.0 - (effective_misses / total_hits).powf(0.775)
MissPenaltyBase(i) ==
    FSub(One, FPowf(FDiv(AsF32(i.effective_misses), AsF32(i.total_hits)),
                    Dec(775, 1000)))

\* The combo scaling shared by aim, speed and flashlight.
ComboScaling(i, a) ==
    IF i.combo # NoneU /\ a.max_combo > 0
    THEN FMin(FPowf(FDiv(AsF32(i.combo), AsF32(a.max_combo)), Dec(8, 10)), One)
    ELSE One

\* (1.0 + (-(0.007 * (total_hits - 400.0))).exp()).recip()
ArTotalHitsFactor(total_hits) ==
    FDiv(One, One + FExp(0 - Times(total_hits - AsF32(400), 7, 1000)))

\* 1.0 + 0.04 * (12.0 - attributes.ar) under HD
HdBonus(i, a) ==
    IF "HD" \in i.mods THEN One + Times(AsF32(12) - a.ar, 4, 100) ELSE One

\* OsuPPInner::compute_aim_value
compute_aim_value(i, a) ==
    LET total_hits == AsF32(i.total_hits)
        raw_aim == IF "TD" \in i.mods THEN FPowf(a.aim_strain, Dec(8, 10))
                   ELSE a.aim_strain
        v0 == Times(FPowi(5 * FMax(Times(raw_aim, 10000, 675), One) - 4 * One, 3),
                    1, 100000)
        v1 == FMul(v0, LenBonus(total_hits))
        v2 == IF i.effective_misses > 0
              THEN FMul(v1, Times(FPowi(MissPenaltyBase(i), i.effective_misses),
                                  97, 100))
              ELSE v1
        v3 == FMul(v2, ComboScaling(i, a))
        ar_factor == IF a.ar > Dec(1033, 100) THEN a.ar - Dec(1033, 100)
                     ELSE IF a.ar < AsF32(8) THEN Times(AsF32(8) - a.ar, 25, 1000)
                     ELSE 0
        ar_bonus == One + FMul(Dec(3, 100)
                               + Times(ArTotalHitsFactor(total_hits), 37, 100),
                               ar_factor)
        v4 == FMul(v3, HdBonus(i, a))
        v5 == FMul(v4, ar_bonus)
        v6 == FMul(v5, Dec(5, 10) + AccF32(i) \div 2)
    IN FMul(v6, Dec(98, 100) + Times(FMul(a.od, a.od), 1, 2500))

\* OsuPPInner::compute_speed_value
compute_speed_value(i, a) ==
    LET total_hits == AsF32(i.total_hits)
        v0 == Times(FPowi(5 * FMax(Times(a.speed_strain, 10000, 675), One)
                          - 4 * One, 3),
                    1, 100000)
        v1 == FMul(v0, LenBonus(total_hits))
        effective_misses == AsF32(i.effective_misses)
        v2 == IF effective_misses > 0
              THEN FMul(v1, Times(FPowf(MissPenaltyBase(i),
                                        FPowf(effective_misses, Dec(875, 1000))),
                                  97, 100))
              ELSE v1
        v3 == FMul(v2, ComboScaling(i, a))
        ar_factor == IF a.ar > Dec(1033, 100) THEN a.ar - Dec(1033, 100) ELSE 0
        v4 == FMul(v3, One + FMul(Dec(3, 100)
                                  + Times(ArTotalHitsFactor(total_hits), 37, 100),
                                  ar_factor))
        v5 == FMul(v4, HdBonus(i, a))
        od_factor == Dec(95, 100) + Times(FMul(a.od, a.od), 1, 750)
        acc_factor == FPowf(AccF32(i),
                            (Dec(145, 10) - FMax(a.od, AsF32(8))) \div 2)
        v6 == FMul(v5, FMul(od_factor, acc_factor))
        n50 == AsF32(i.n50)
        excess == IF n50 >= Times(total_hits, 1, 500)
                  THEN n50 - Times(total_hits, 1, 500) ELSE 0
    IN FMul(v6, FPowf(Dec(98, 100), excess))

\* A plausible slip: the relax guard is missing.
AccuracyGuard_missing(i) == FALSE

\* `if self.mods.rx() { return 0.0; }` of compute_accuracy_value
AccuracyGuard(i) == "RX" \in i.mods

\* OsuPPInner::compute_accuracy_value. With n_circles = 0 the quotient is
\* +inf, NaN or -inf by the sign of the numerator; .max(0.0) turns the last
\* two into 0, and (n_circles > 0.0) as f32 = 0 times +inf is NaN.
compute_accuracy_value(i, a) ==
    IF AccuracyGuard(i) THEN 0
    ELSE LET numerator == (i.n300 - (i.total_hits - a.n_circles)) * 6
                          + i.n100 * 2 + i.n50
             better_acc_percentage ==
                 IF a.n_circles > 0
                 THEN FMax(FDiv(AsF32(numerator), AsF32(a.n_circles * 6)), 0)
                 ELSE IF numerator > 0 THEN NaN ELSE 0
             v0 == Times(FMul(FPowf(Dec(152163, 100000), a.od),
                              FPowi(better_acc_percentage, 24)),
                         283, 100)
             v1 == FMul(v0, FMin(FPowf(FDiv(AsF32(a.n_circles), AsF32(1000)),
                                       Dec(3, 10)),
                                 Dec(115, 100)))
             v2 == IF "HD" \in i.mods THEN Times(v1, 108, 100) ELSE v1
         IN IF "FL" \in i.mods THEN Times(v2, 102, 100) ELSE v2

\* `if !self.mods.fl() { return 0.0; }` of compute_flashlight_value
FlashlightGuard(i) == ~("FL" \in i.mods)

\* OsuPPInner::compute_flashlight_value
compute_flashlight_value(i, a) ==
    IF FlashlightGuard(i) THEN 0
    ELSE LET total_hits == AsF32(i.total_hits)
             raw_flashlight ==
                 IF "TD" \in i.mods THEN FPowf(a.flashlight_rating, Dec(8, 10))
                 ELSE a.flashlight_rating
             v0 == FMul(raw_flashlight, raw_flashlight) * 25
             v1 == IF "HD" \in i.mods THEN Times(v0, 13, 10) ELSE v0
             effective_misses == AsF32(i.effective_misses)
             v2 == IF effective_misses > 0
                   THEN FMul(v1, Times(FPowf(MissPenaltyBase(i),
                                             FPowf(effective_misses,
                                                   Dec(875, 1000))),
                                       97, 100))
                   ELSE v1
             v3 == FMul(v2, ComboScaling(i, a))
             ramp == Dec(7, 10)
                     + Times(FMin(FDiv(total_hits, AsF32(200)), One), 1, 10)
                     + (IF total_hits > AsF32(200)
                        THEN Times(FMin(FDiv(total_hits - AsF32(200), AsF32(200)),
                                        One), 2, 10)
                        ELSE 0)
             v4 == FMul(v3, ramp)
             v5 == FMul(v4, Dec(5, 10) + AccF32(i) \div 2)
         IN FMul(v5, Dec(98, 100) + Times(FMul(a.od, a.od), 1, 2500))

\* A plausible slip: the penalty is applied without its floor of 0.9.
NfPenalty_no_floor(i) ==
    IF "NF" \in i.mods THEN One - Times(AsF32(i.effective_misses), 2, 100)
    ELSE One

\* The factor of the NF penalty: (1.0 - 0.02 * effective_misses).max(0.9)
NfPenalty(i) ==
    IF "NF" \in i.mods
    THEN FMax(One - Times(AsF32(i.effective_misses), 2, 100), Dec(9, 10))
    ELSE One

\* The factor of the SO penalty: 1.0 - (n_spinners / total_hits).powf(0.85)
SoPenalty(i, a) ==
    IF "SO" \in i.mods
    THEN One - FPowf(FDiv(AsF32(a.n_spinners), AsF32(i.total_hits)),
                     Dec(85, 100))
    ELSE One

\* The multiplier of OsuPPInner::calculate: 1.12, then the NF, SO and relax
\* penalties in that order.
Multiplier(i, a) ==
    LET m1 == FMul(Dec(112, 100), NfPenalty(i))
        m2 == FMul(m1, SoPenalty(i, a))
    IN IF "RX" \in i.mods THEN Times(m2, 6, 10) ELSE m2

\* The relax penalty's change of self: effective_misses += n100 + n50
RelaxMisses(i) ==
    IF "RX" \in i.mods
    THEN [i EXCEPT !.effective_misses = @ + i.n100 + i.n50]
    ELSE i

\* OsuPPInner::calculate
OsuPPInner_calculate(i, a) ==
    LET multiplier == Multiplier(i, a)
        self == RelaxMisses(i)
        aim_value == compute_aim_value(self, a)
        speed_value == compute_speed_value(self, a)
        acc_value == compute_accuracy_value(self, a)
        flashlight_value == compute_flashlight_value(self, a)
        total == FAdd(FAdd(FPowf(aim_value, Dec(11, 10)),
                           FPowf(speed_value, Dec(11, 10))),
                      FAdd(FPowf(acc_value, Dec(11, 10)),
                           FPowf(flashlight_value, Dec(11, 10))))
    IN [pp_acc |-> acc_value, pp_aim |-> aim_value,
        pp_flashlight |-> flashlight_value, pp_speed |-> speed_value,
        pp |-> FMul(FPowf(total, Dec(10, 11)), multiplier)]


(***************************************************************************)
(*        SolverSpec: the builder's setters, accuracy() and finalize       *)
(***************************************************************************)

\* The taiko variables while an osu! specification runs.
TaikoIdle ==
    /\ map = <<>>
    /\ iter = <<>>
    /\ op = "idle"
    /\ res = <<>>

\* No accuracy() call was made yet.
NoTarget == [called |-> FALSE, k |-> 0, before |-> <<>>]
NoInner == <<>>
NoPerf == <<>>

\* The builder of the tests: OsuPP::new on a map, DifficultyAttributes::default().
SolverInit ==
    /\ overflow_checks \in BOOLEAN
    /\ TaikoIdle
    /\ phase = "build"
    /\ attributes = DefaultAttributes
    /\ \E map_len \in {0, MaxCount} : builder = OsuPP_new(map_len)
    /\ target = NoTarget
    /\ inner = NoInner
    /\ perf = NoPerf
    /\ NormIdle

\* The setters run before accuracy(), as its documentation asks ("Be sure to
\* set `misses` beforehand!", "should be set last").
Setting == phase = "build" /\ ~target.called

\* OsuPP::passed_objects
SetPassedObjects(values) ==
    /\ Setting
    /\ \E v \in values : builder' = [builder EXCEPT !.passed_objects = v]
    /\ UNCHANGED <<overflow_checks, norm, taiko_vars, phase, attributes, target, inner, perf>>

\* OsuPP::n300
SetN300(values) ==
    /\ Setting
    /\ \E v \in values : builder' = [builder EXCEPT !.n300 = v]
    /\ UNCHANGED <<overflow_checks, norm, taiko_vars, phase, attributes, target, inner, perf>>

\* OsuPP::n100
SetN100(values) ==
    /\ Setting
    /\ \E v \in values : builder' = [builder EXCEPT !.n100 = v]
    /\ UNCHANGED <<overflow_checks, norm, taiko_vars, phase, attributes, target, inner, perf>>

\* OsuPP::n50
SetN50(values) ==
    /\ Setting
    /\ \E v \in values : builder' = [builder EXCEPT !.n50 = v]
    /\ UNCHANGED <<overflow_checks, norm, taiko_vars, phase, attributes, target, inner, perf>>

\* OsuPP::misses
SetMisses(values) ==
    /\ Setting
    /\ \E v \in values : builder' = [builder EXCEPT !.n_misses = v]
    /\ UNCHANGED <<overflow_checks, norm, taiko_vars, phase, attributes, target, inner, perf>>

\* OsuPP::accuracy. An overflow ends the run: the panic unwinds, and the
\* wrapped counts are outside the model's numbers.
Accuracy(targets) ==
    /\ Setting
    /\ \E k \in targets :
          LET r == OsuPP_accuracy(builder, k, overflow_checks)
          IN /\ builder' = r.b
             /\ phase' = IF r.fault = "none" THEN "build" ELSE "fault"
             /\ target' = [called |-> TRUE, k |-> k, before |-> builder]
    /\ UNCHANGED <<overflow_checks, norm, taiko_vars, attributes, inner, perf>>

\* OsuPP::assert_hitresults
AssertHitresults ==
    /\ phase = "build"
    /\ inner' = OsuPP_assert_hitresults(builder, attributes)
    /\ phase' = "inner"
    /\ UNCHANGED <<overflow_checks, norm, taiko_vars, attributes, builder, target, perf>>

SolverNext ==
    \/ SetPassedObjects(0..MaxCount)
    \/ SetN300(0..MaxCount)
    \/ SetN100(0..MaxCount)
    \/ SetN50(0..MaxCount)
    \/ SetMisses(0..MaxMisses)
    \/ Accuracy(0..AccSteps)
    \/ AssertHitresults

SolverSpec == SolverInit /\ [][SolverNext]_vars

\* Object budget of CanonSpec, large enough for the rebalance of the branch
\* without n100/n50 to convert more than one block.
CanonCount == 12

\* CanonSpec: accuracy() on a builder without n100/n50, for the budgets
\* CanonCount - 1 and CanonCount.
CanonNext ==
    \/ SetPassedObjects({CanonCount - 1, CanonCount})
    \/ SetN300({1})
    \/ SetMisses(0..MaxMisses)
    \/ Accuracy(0..AccSteps)
    \/ AssertHitresults

CanonSpec == SolverInit /\ [][CanonNext]_vars

(***************************************************************************)
(*      PerfSpec: a configured builder and the terminal calculate()        *)
(***************************************************************************)

\* Number of hit objects of the larger map of PerfSpec.
PerfObjects == 10

\* The mods the synthesizer queries: every subset is a mods bitmask.
ModSets == SUBSET {"NF", "SO", "RX", "TD", "HD", "FL"}

\* The DifficultyAttributes given to the calculation: the default ones, and
\* those of a map of 7 circles, 2 sliders and 1 spinner (od 8.5, ar 10.5,
\* strains 1.0).
PerfAttributes ==
    {DefaultAttributes,
     [max_combo |-> 12, n_sliders |-> 2, n_circles |-> 7, n_spinners |-> 1,
      od |-> Dec(85, 10), ar |-> Dec(105, 10), aim_strain |-> One,
      speed_strain |-> One, flashlight_rating |-> One]}

PerfInit ==
    /\ overflow_checks \in BOOLEAN
    /\ TaikoIdle
    /\ phase = "build"
    /\ attributes \in PerfAttributes
    /\ \E map_len \in {1, PerfObjects} : builder = OsuPP_new(map_len)
    /\ target = NoTarget
    /\ inner = NoInner
    /\ perf = NoPerf
    /\ NormIdle

\* OsuPP::mods
SetMods ==
    /\ Setting
    /\ \E m \in ModSets : builder' = [builder EXCEPT !.mods = m]
    /\ UNCHANGED <<overflow_checks, norm, taiko_vars, phase, attributes, target, inner, perf>>

\* OsuPP::combo
SetCombo ==
    /\ Setting
    /\ \E c \in {1, 2, PerfObjects + 2} : builder' = [builder EXCEPT !.combo = c]
    /\ UNCHANGED <<overflow_checks, norm, taiko_vars, phase, attributes, target, inner, perf>>

\* OsuPP::calculate: the attributes given (or computed by stars()), then
\* assert_hitresults, then OsuPPInner::calculate.
Calculate ==
    /\ phase = "build"
    /\ inner' = OsuPP_assert_hitresults(builder, attributes)
    /\ perf' = OsuPPInner_calculate(inner', attributes)
    /\ phase' = "done"
    /\ UNCHANGED <<overflow_checks, norm, taiko_vars, attributes, builder, target>>

PerfNext ==
    \/ SetMods
    \/ SetCombo
    \/ SetMisses(0..MaxMisses)
    \/ SetN100({1})
    \/ SetN50({2})
    \/ Accuracy({0, AccSteps \div 2, AccSteps})
    \/ Calculate

PerfSpec == PerfInit /\ [][PerfNext]_vars


(***************************************************************************)
(*          OsuObject::new: the object normalizer of osu_2019              *)
(***************************************************************************)

\* Largest number of raw objects normalized in one run.
MaxRaw == 3
\* Largest `repeats` (number of spans) of a slider.
MaxRepeats == 3

\* tick_distance of the map, 100 * slider_mult / tick_rate after the
\* velocity adjustment: one positive value, in pixels.
tick_distance == 80

\* pixel_len.unwrap_or(0.0) of the sliders: no length, and lengths that give
\* 1 and 2 ticks in the first span.
PixelLens == {0, 100, 250}

\* &HitObject: its kind, and pixel_len and repeats of a slider.
RawObjects ==
    {[kind |-> k, pixel_len |-> 0, repeats |-> 0] :
        k \in {"Circle", "Spinner", "Hold"}}
    \cup {[kind |-> "Slider", pixel_len |-> p, repeats |-> r] :
            p \in PixelLens, r \in 1..MaxRepeats}

\* One call of compute_vertex(time). The time is identified by what it was
\* computed from: the slider (its place in the input, for h.start_time) and
\* the tick index, the repeat index, or the tail.
Vertex(at, slider, idx) == [at |-> at, slider |-> slider, idx |-> idx]

\* The `for tick_idx in 1..` loop: visit and push the tick, advance
\* current_distance, stop when it reaches target = pixel_len -
\* tick_distance / 8 (compared in eighths).
RECURSIVE TickLoop(_, _, _, _)
TickLoop(h, i, tick_idx, current_distance) ==
    LET advanced == current_distance + tick_distance
    IN <<Vertex("tick", i, tick_idx)>>
       \o (IF 8 * advanced >= 8 * h.pixel_len - tick_distance
           THEN <<>>
           ELSE TickLoop(h, i, tick_idx + 1, advanced))

\* "Tick of the first span": the times visited and pushed onto ticks.
FirstSpanTicks(h, i) ==
    IF 8 * tick_distance < 8 * h.pixel_len - tick_distance
    THEN TickLoop(h, i, 1, tick_distance)
    ELSE <<>>

\* ticks.iter().rev()
Reverse(seq) == [j \in 1..Len(seq) |-> seq[Len(seq) + 1 - j]]

\* "Other spans": for repeat_id in 1..repeats, the reverse tick and then the
\* buffer's ticks, backwards when repeat_id is odd.
RECURSIVE OtherSpans(_, _, _, _)
OtherSpans(h, i, ticks, repeat_id) ==
    IF repeat_id >= h.repeats
    THEN <<>>
    ELSE <<Vertex("reverse", i, repeat_id)>>
         \o (IF repeat_id % 2 = 1 THEN Reverse(ticks) ELSE ticks)
         \o OtherSpans(h, i, ticks, repeat_id + 1)

\* A plausible slip: the buffer is not emptied after the slider.
ClearTicks_missing(ticks) == ticks

\* ticks.clear()
ClearTicks(ticks) == <<>>

\* OsuObject::new(h, ..., ticks, attributes, ...). n holds the shared ticks
\* buffer and the attributes, and logs the call: its input, whether it
\* returned Some, and the vertices compute_vertex was called on.
\* ticks.reserve changes the capacity only.
OsuObject_new(n, h) ==
    LET i == Len(n.inputs) + 1
        n1 == [n EXCEPT !.inputs = Append(@, h), !.max_combo = @ + 1]
    IN CASE h.kind = "Circle" ->
                [n1 EXCEPT !.n_circles = @ + 1,
                           !.produced = Append(@, TRUE),
                           !.visits = Append(@, <<>>)]
         [] h.kind = "Slider" ->
                LET first == FirstSpanTicks(h, i)
                    ticks == n.ticks \o first
                    visited == first \o OtherSpans(h, i, ticks, 1)
                               \o <<Vertex("tail", i, 0)>>
                IN [n1 EXCEPT !.max_combo = @ + Len(visited),
                              !.ticks = ClearTicks(ticks),
                              !.produced = Append(@, TRUE),
                              !.visits = Append(@, visited)]
         [] h.kind = "Spinner" ->
                [n1 EXCEPT !.n_spinners = @ + 1,
                           !.produced = Append(@, TRUE),
                           !.visits = Append(@, <<>>)]
         [] h.kind = "Hold" ->
                [n1 EXCEPT !.produced = Append(@, FALSE),
                           !.visits = Append(@, <<>>)]

\* Before the first object: an empty buffer and default attributes.
NormInit ==
    /\ overflow_checks \in BOOLEAN
    /\ TaikoIdle
    /\ OsuIdle
    /\ norm = [inputs |-> <<>>, produced |-> <<>>, visits |-> <<>>,
               ticks |-> <<>>, max_combo |-> 0, n_circles |-> 0,
               n_spinners |-> 0]

\* The next raw object of the map is normalized.
Normalize ==
    /\ Len(norm.inputs) < MaxRaw
    /\ \E h \in RawObjects : norm' = OsuObject_new(norm, h)
    /\ UNCHANGED <<overflow_checks, taiko_vars, osu_vars>>

NormNext == Normalize

NormSpec == NormInit /\ [][NormNext]_vars

(***************************************************************************)
(*                Claims about TaikoGradualDifficulty                      *)
(***************************************************************************)

\* k consecutive next() calls, of which only the last result is kept.
RECURSIVE NextTimes(_, _)
NextTimes(s, k) ==
    IF k = 1 THEN Taiko_next(s) ELSE NextTimes(Taiko_next(s).st, k - 1)

\* C1: skip-ahead equivalence. From every reachable iterator state and for
\* every k >= 1, nth(k-1) returns the same result and leaves the same cursor
\* state (idx, max_combo, difficulty objects consumed) as k next() calls.
C1_SkipAheadEquivalence ==
    res.kind # "Panic" =>
        \A k \in 1..(MaxSkip + 1) :
            Taiko_nth(iter, k - 1, overflow_checks) = NextTimes(iter, k)

\* C2: a freshly constructed iterator's len() is the number of hit-type
\* objects of the map, for every map.
C2_InitialLen ==
    op = "new" => Taiko_len(iter) = HitCount(map)

\* C3: in every reachable state with len() > 0, a next() that returns a
\* snapshot leaves len() exactly one smaller, and a next() that returns None
\* leaves len() unchanged.
C3_ExactRemainingCount ==
    Taiko_len(iter) > 0 =>
        LET r == Taiko_next(iter)
        IN /\ r.res.kind = "Some" => Taiko_len(r.st) = Taiko_len(iter) - 1
           /\ r.res.kind = "None" => Taiko_len(r.st) = Taiko_len(iter)
           /\ r.res.kind \in {"Some", "None"}

\* C3 witness: a next() call has just returned a snapshot and len() is still
\* positive, so the call was made with len() > 1 and another one is covered.
C3_Witness ==
    /\ op = "next"
    /\ res.kind = "Some"
    /\ Taiko_len(iter) > 0
    /\ iter.idx >= 3

\* C4: whenever the remaining length total_hits - idx is 0, next() returns
\* None, and idx never exceeds total_hits.
C4_NoSnapshotPastEnd ==
    /\ Taiko_len(iter) = 0 => Taiko_next(iter).res.kind = "None"
    /\ iter.idx <= iter.total_hits

\* The place in the map of the object a snapshot corresponds to: the idx-th
\* object while priming, afterwards the last difficulty object processed
\* (difficulty objects start at the third object).
SnapshotObject(s) == IF s.idx <= 2 THEN s.idx ELSE 2 + s.peaks

\* C17: every emitted snapshot reports max_combo equal to the number of
\* hit-type objects among the map objects up to and including the object the
\* snapshot corresponds to; on a map of hit-type objects only, the k-th
\* snapshot has max_combo = k.
C17_RunningCombo ==
    res.kind = "Some" =>
        /\ res.max_combo = HitCount(SubSeq(map, 1, SnapshotObject(iter)))
        /\ HitCount(map) = Len(map) => res.max_combo = iter.idx

\* C19: once a next() or nth() call has returned None, every later next()
\* and nth(n) call returns None as well.
C19_ExhaustedIsTerminal ==
    [][(op # "new" /\ res.kind = "None") => res'.kind = "None"]_vars

(***************************************************************************)
(*                   Claims about the solver of OsuPP                      *)
(***************************************************************************)

Abs(x) == IF x < 0 THEN 0 - x ELSE x

\* |100 * points / (6 * n_objects) - 100 * k / AccSteps| < 1
WithinOnePoint(points, n_objects, k) ==
    100 * Abs(points * AccSteps - 6 * n_objects * k) < 6 * n_objects * AccSteps

\* 6 * n300 + 2 * n100 + n50 of the counts the builder holds.
Points(b) == 6 * unwrap_or(b.n300, 0) + 2 * unwrap_or(b.n100, 0) + unwrap_or(b.n50, 0)

\* n300 + n100 + n50 of the counts the builder holds.
Hits(b) == unwrap_or(b.n300, 0) + unwrap_or(b.n100, 0) + unwrap_or(b.n50, 0)

\* C5: with passed_objects >= 1 set, no hit counts preset and no misses,
\* accuracy() produces counts whose recomputed accuracy is within 1
\* percentage point of the target, for every target in [0, 100].
C5_AccuracyPrecision ==
    ( /\ target.called
      /\ target.before.passed_objects # NoneU
      /\ target.before.passed_objects >= 1
      /\ target.before.n300 = NoneU
      /\ target.before.n100 = NoneU
      /\ target.before.n50 = NoneU
      /\ target.before.n_misses = 0 )
    => /\ phase # "fault"
       /\ WithinOnePoint(Points(builder), n_objects_of(builder), target.k)

\* C6: with passed_objects set, the counts stored by accuracy() and the
\* counts of the finalized OsuPPInner satisfy
\* n300 + n100 + n50 + misses = passed_objects.
C6_CountConservation ==
    builder.passed_objects # NoneU =>
        /\ (phase = "build" /\ target.called) =>
               Hits(builder) + builder.n_misses = builder.passed_objects
        /\ phase = "inner" =>
               inner.n300 + inner.n100 + inner.n50 + builder.n_misses
                   = builder.passed_objects

\* C7: with n50 preset (not above the budget), n100 not preset and no
\* misses, accuracy() leaves n50 within 4 of the preset and the recomputed
\* accuracy within 1 percentage point of the target.
C7_AccuracyAndN50 ==
    ( /\ target.called
      /\ target.before.n50 # NoneU
      /\ target.before.n100 = NoneU
      /\ target.before.n_misses = 0
      /\ n_objects_of(target.before) >= 1
      /\ target.before.n50 <= n_objects_of(target.before) )
    => /\ phase # "fault"
       /\ Abs(builder.n50 - target.before.n50) <= 4
       /\ WithinOnePoint(Points(builder), n_objects_of(builder), target.k)

\* The shortfall the completion step has to place.
Shortfall(b) == n_objects_of(b) - Hits(b) - b.n_misses

\* C8: when accuracy() was never called and the specified counts plus the
\* misses are at most the budget, assert_hitresults adds the whole shortfall
\* to exactly one field - n300 if unspecified, else n100 if unspecified, else
\* n50 if unspecified, else n300 additively - leaves the other counts as
\* specified, and the finalized counts plus the misses equal the budget.
C8_CompletionStep ==
    (phase = "inner" /\ ~target.called /\ Shortfall(builder) >= 0) =>
        LET b == builder
            d == Shortfall(b)
            to == IF b.n300 = NoneU THEN "n300"
                  ELSE IF b.n100 = NoneU THEN "n100"
                  ELSE IF b.n50 = NoneU THEN "n50"
                  ELSE "n300"
        IN /\ inner.n300 = unwrap_or(b.n300, 0) + (IF to = "n300" THEN d ELSE 0)
           /\ inner.n100 = unwrap_or(b.n100, 0) + (IF to = "n100" THEN d ELSE 0)
           /\ inner.n50 = unwrap_or(b.n50, 0) + (IF to = "n50" THEN d ELSE 0)
           /\ inner.n300 + inner.n100 + inner.n50 + b.n_misses = n_objects_of(b)

\* C8 witness: Scenario C in small - passed_objects set, all three counts
\* specified, a positive shortfall, finalized without accuracy().
C8_Witness ==
    /\ phase = "inner"
    /\ ~target.called
    /\ builder.passed_objects # NoneU
    /\ builder.n300 # NoneU /\ builder.n100 > 0 /\ builder.n50 > 0
    /\ Shortfall(builder) > 1
    /\ inner.n300 = builder.n300 + Shortfall(builder)

\* C11: accuracy() is total - for every budget, miss count, preset of
\* n100/n50 and target in [0, 100] it completes without an unsigned
\* subtraction going below zero.
C11_AccuracyTotal ==
    target.called => phase # "fault"

\* C12: the counts of the finalized OsuPPInner never overrun the budget,
\* n300 + n100 + n50 + misses <= n_objects, whatever the caller specified.
C12_BudgetClamp ==
    phase = "inner" =>
        inner.n300 + inner.n100 + inner.n50 + builder.n_misses
            <= n_objects_of(builder)

\* C16: in the branch of accuracy() without n100/n50, the rebalance leaves
\* n300 + n100 + n50 and 6 * n300 + 2 * n100 + n50 unchanged, and the stored
\* triple has the smallest n50 among all non-negative triples with that
\* object count and that point total; on return n50 < 4 or n300 = 0.
C16_CanonicalMinimalN50 ==
    ( /\ target.called
      /\ phase # "fault"
      /\ target.before.n100 = NoneU
      /\ target.before.n50 = NoneU )
    => LET pre == FullSplit(target.before, target.k)
           counts == 0..Max(n_objects_of(builder), 0)
       IN /\ Hits(builder) = pre.n300 + pre.n100 + pre.n50
          /\ Points(builder) = 6 * pre.n300 + 2 * pre.n100 + pre.n50
          /\ \A a \in counts, b \in counts, c \in counts :
                (a + b + c = Hits(builder) /\ 6 * a + 2 * b + c = Points(builder))
                    => c >= builder.n50
          /\ builder.n50 < 4 \/ builder.n300 = 0

\* C16 witness: a target for which the split leaves at least 8 n50 next to
\* at least 2 n300, so that the rebalance converts two blocks.
C16_Witness ==
    /\ target.called
    /\ phase = "build"
    /\ target.before.n100 = NoneU
    /\ target.before.n50 = NoneU
    /\ FullSplit(target.before, target.k).n50 >= 8
    /\ FullSplit(target.before, target.k).n300 >= 3
    /\ builder.n300 = 1
    /\ builder.n50 < 4

(***************************************************************************)
(*               Claims about the performance synthesizer                  *)
(***************************************************************************)

\* C9: compute_accuracy_value returns exactly 0 whenever the relax modifier
\* is active, and compute_flashlight_value returns exactly 0 whenever the
\* flashlight modifier is inactive, whatever the other inputs are.
C9_NotApplicableIsZero ==
    phase = "done" =>
        /\ "RX" \in builder.mods => perf.pp_acc = 0
        /\ "FL" \notin builder.mods => perf.pp_flashlight = 0

\* C9 witness: a calculation under relax and without flashlight, on the
\* attributes and counts for which the other two skill values are positive.
C9_Witness ==
    /\ phase = "done"
    /\ "RX" \in builder.mods
    /\ "FL" \notin builder.mods
    /\ attributes.n_circles > 0
    /\ inner.n300 > 0
    /\ perf.pp_aim > 0
    /\ perf.pp_speed > 0

\* C10: with the no-fail modifier active the factor it contributes to the
\* global multiplier is max(1 - 0.02 * effective_misses, 0.9), for the
\* effective-miss count the estimator produced: 1 - 0.02 * effective_misses
\* below 5, exactly 0.9 from 5 on, never below 0.9; with the modifier
\* inactive the factor is 1, so that without SO and relax the multiplier is
\* 1.12 times that factor.
C10_NoFailPenalty ==
    phase = "done" =>
        LET em == calculate_effective_misses(attributes, builder.combo,
                                             builder.n_misses, inner.total_hits)
            factor == IF "NF" \notin builder.mods THEN FScale
                      ELSE IF em >= 5 THEN (9 * FScale) \div 10
                      ELSE FScale - (2 * em * FScale) \div 100
        IN /\ NfPenalty(inner) = factor
           /\ NfPenalty(inner) >= (9 * FScale) \div 10
           /\ builder.mods \subseteq {"NF", "TD", "HD", "FL"} =>
                  Multiplier(inner, attributes) = (112 * factor) \div 100

\* C10 witness: Scenario D - no-fail active and an effective-miss count of 5
\* that the estimator derived from the combo, not from the reported misses.
C10_Witness ==
    /\ phase = "done"
    /\ "NF" \in builder.mods
    /\ inner.effective_misses = 5
    /\ builder.n_misses < 5
    /\ NfPenalty(inner) = (9 * FScale) \div 10

\* e = floor(min(threshold10 / (10 * c), total_hits)), by cross-multiplication.
EstimateIs(e, threshold10, c, total_hits) ==
    IF threshold10 >= 10 * c * total_hits
    THEN e = total_hits
    ELSE e * 10 * c <= threshold10 /\ threshold10 < (e + 1) * 10 * c

\* C13: calculate_effective_misses returns the reported misses when the map
\* has no sliders, no combo was given or combo >= max_combo - 0.1 * n_sliders;
\* otherwise max(misses, floor(min((max_combo - 0.1 * n_sliders) /
\* max(combo, 1), total_hits))). It is never below the reported misses.
C13_EffectiveMisses ==
    phase = "done" =>
        LET threshold10 == 10 * attributes.max_combo - attributes.n_sliders
            plain == \/ attributes.n_sliders = 0
                     \/ builder.combo = NoneU
                     \/ 10 * builder.combo >= threshold10
        IN /\ inner.effective_misses >= builder.n_misses
           /\ plain => inner.effective_misses = builder.n_misses
           /\ ~plain =>
                 \E e \in 0..inner.total_hits :
                     /\ EstimateIs(e, threshold10, Max(builder.combo, 1),
                                   inner.total_hits)
                     /\ inner.effective_misses = Max(builder.n_misses, e)

\* C13 witness: sliders, a combo below the threshold, and an estimate that
\* is above the reported misses and below total_hits (11.8 / 2 floors to 5).
C13_Witness ==
    /\ phase = "done"
    /\ attributes.n_sliders > 0
    /\ builder.combo = 2
    /\ builder.n_misses = 1
    /\ inner.total_hits = PerfObjects
    /\ inner.effective_misses = 5

\* C15: the effective-miss count the miss penalties use (after the relax
\* penalty folded n100 + n50 into it) is at most total_hits, so the penalty
\* base 1 - (effective_misses / total_hits)^0.775 is not negative.
C15_ValidMissRatio ==
    phase = "done" =>
        LET self == RelaxMisses(inner)
        IN /\ self.effective_misses <= self.total_hits
           /\ MissPenaltyBase(self) >= 0

(***************************************************************************)
(*                  Claims about the object normalizer                     *)
(***************************************************************************)

\* Vertices the claim counts for input h at place j: R * (T + 1) for a
\* slider with R spans and T ticks in its first span, 0 otherwise.
SliderVertices(h, j) ==
    IF h.kind = "Slider" THEN h.repeats * (Len(FirstSpanTicks(h, j)) + 1) ELSE 0

\* Sum over the first j inputs that produced an object of 1 + vertices.
RECURSIVE ComboSum(_)
ComboSum(j) ==
    IF j = 0 THEN 0
    ELSE ComboSum(j - 1)
         + (IF norm.produced[j] THEN 1 + SliderVertices(norm.inputs[j], j) ELSE 0)

\* C14: after any sequence of raw objects, max_combo is the sum over the
\* inputs that produced an object of 1 plus the slider vertices visited; an
\* input that produces no object (Hold) contributes nothing.
C14_ComboInvariant ==
    norm.max_combo = ComboSum(Len(norm.inputs))

\* The p-th vertex of a slider with R spans whose first span has T ticks:
\* the ticks 1..T, then per repeat r the reverse tick and the same T ticks
\* (backwards for odd r), then the tail.
ExpectedVertex(h, j, p) ==
    LET T == Len(FirstSpanTicks(h, j))
        q == p - T - 1
        r == q \div (T + 1) + 1
        o == q % (T + 1)
    IN IF p <= T THEN Vertex("tick", j, p)
       ELSE IF p = h.repeats * (T + 1) THEN Vertex("tail", j, 0)
       ELSE IF o = 0 THEN Vertex("reverse", j, r)
       ELSE Vertex("tick", j, IF r % 2 = 1 THEN T + 1 - o ELSE o)

\* C18: the tick buffer is empty when a call returns (it was empty when the
\* call began), for every object kind, and the vertices visited on a slider
\* are its own first-span ticks, replayed on each repeat span backwards for
\* an odd repeat index and forwards for an even one.
C18_TickBufferIsolation ==
    /\ norm.ticks = <<>>
    /\ \A h \in RawObjects : OsuObject_new(norm, h).ticks = <<>>
    /\ \A j \in 1..Len(norm.inputs) :
          LET h == norm.inputs[j]
          IN h.kind = "Slider" =>
                /\ Len(norm.visits[j])
                       = h.repeats * (Len(FirstSpanTicks(h, j)) + 1)
                /\ \A p \in 1..Len(norm.visits[j]) :
                       norm.visits[j][p] = ExpectedVertex(h, j, p)

\* C18 witness: a slider with two ticks and three spans, normalized right
\* after another slider that pushed ticks of its own.
C18_Witness ==
    /\ Len(norm.inputs) >= 2
    /\ norm.inputs[1].kind = "Slider"
    /\ Len(FirstSpanTicks(norm.inputs[1], 1)) = 2
    /\ norm.inputs[2].kind = "Slider"
    /\ norm.inputs[2].repeats = 3
    /\ Len(norm.visits[2]) = 9
    /\ norm.visits[2][3] = Vertex("reverse", 2, 1)
    /\ norm.visits[2][4] = Vertex("tick", 2, 2)
    /\ norm.visits[2][7] = Vertex("tick", 2, 1)
    /\ norm.ticks = <<>>

====
